---- MODULE Spec2Model ----
(***************************************************************************)
(* A model of src/shell.c: the read-dispatch-execute loop of main, the     *)
(* builtin registry (cmd_table, lookup), the builtin handlers, and the     *)
(* fork / execv / wait protocol, together with the part of the C library   *)
(* and of the kernel that the loop's behaviour depends on: the stdio read  *)
(* buffer of stdin, the file offset that parent and child share after      *)
(* fork, and the working directory.                                        *)
(*                                                                         *)
(* Abstractions.  A raw input line is a sequence of words and blanks; the  *)
(* terminating newline is implicit.  File offsets are counted in lines.    *)
(* An external program that was exec'ed successfully does not read the     *)
(* shell's standard input.  The shell starts with no children of its own.  *)
(***************************************************************************)
EXTENDS Integers, Sequences, FiniteSets, TLC

\* ---------------------------------------------------------------- bounds
MaxLines == 2      \* lines in the input stream
MaxReads == 4      \* lines main may read in one run (the loop can replay input)

\* ------------------------------------------------------------- constants
NULL == "<NULL>"           \* the null pointer, where a string is expected
NotFound == -1             \* lookup's "return -1"
Fault == -99               \* outcome of dereferencing a null pointer
Running == -1              \* exit_status of a process that has not terminated
EXIT_FAILURE == 1
ShellPid == 1
\* Process groups of the session other than the shell's own pid: the group
\* of the supervising shell, and a job whose leader is another process.
SupervisorPgid == 100
JobPgid == 101
\* tcgetpgrp returns -1: stdin is not the controlling terminal.
NoCtty == -1

\* fun_desc_t cmd_table[]: C index i is element i+1 here.
cmd_table ==
  << [fun |-> "cmd_exit", cmd |-> "exit"],
     [fun |-> "cmd_help", cmd |-> "?"],
     [fun |-> "cmd_pwd",  cmd |-> "pwd"],
     [fun |-> "cmd_cd",   cmd |-> "cd"] >>

\* Variant: the element count is one short.
TableLen_short == Len(cmd_table) - 1

\* sizeof(cmd_table) / sizeof(fun_desc_t)
TableLen == Len(cmd_table)

\* ------------------------------------------------- the file system we run in
Dirs == {"/", "/a", "/root"}          \* existing directories
Accessible == {"/", "/a"}             \* those the shell may search
Executables == {"/bin/ls"}            \* files execv can load

Parent(dir) == "/"                    \* every directory of Dirs has parent "/"

\* Path resolution as done by chdir(2): absolute paths stand for themselves,
\* ".." is the parent directory, any other name is looked up in cwd.
AbsPaths == {"/", "/a", "/root", "/nodir"}
Resolve(dir, path) ==
  IF path = ".." THEN Parent(dir)
  ELSE IF path \in AbsPaths THEN path
  ELSE "/nodir"                       \* no other relative name exists

\* chdir(path) returns 0
ChdirOk(dir, path) ==
  /\ path # NULL
  /\ Resolve(dir, path) \in Dirs
  /\ Resolve(dir, path) \in Accessible

\* ----------------------------------------------------------- input lines
Blank == " "

RawLines ==
  { <<>>,
    <<"exit">>,
    <<"exit", Blank, "1">>,
    <<"?">>,
    <<"help">>,
    <<"pwd">>,
    <<"cd">>,
    <<"cd", Blank, "/a">>,
    <<"cd", Blank, "/nodir">>,
    <<"cd", Blank, "..">>,
    <<"/bin/ls", Blank, "-l">>,
    <<"EXIT">> }

HomeValues == {NULL, "/a", "/root"}

\* tokenizer.h: the words of the line, in order, blanks dropped.
IsWord(w) == w # Blank
tokenize(l) == SelectSeq(l, IsWord)
tokens_get_length(t) == Len(t)
tokens_get_token(t, n) == IF n >= Len(t) THEN NULL ELSE t[n + 1]

RECURSIVE TokenizeAll(_)
TokenizeAll(ls) ==
  IF ls = <<>> THEN <<>> ELSE <<tokenize(Head(ls))>> \o TokenizeAll(Tail(ls))

\* ---------------------------------------------------------------- lookup
\* Lower-case form of the names used here.
ToLower(a) == IF a = "EXIT" THEN "exit" ELSE a

\* Variant: the comparison ignores case (strcasecmp).
strcmp_nocase(a, b) ==
  IF a = NULL \/ b = NULL THEN Fault
  ELSE IF ToLower(a) = ToLower(b) THEN 0 ELSE 1

\* strcmp(a, b) == 0, or Fault when an argument is the null pointer
strcmp(a, b) ==
  IF a = NULL \/ b = NULL THEN Fault ELSE IF a = b THEN 0 ELSE 1

\* Variant: the name is compared without the test for a null pointer.
RECURSIVE lookup_from_noguard(_, _)
lookup_from_noguard(cmd, i) ==
  IF i >= TableLen THEN NotFound
  ELSE IF strcmp(cmd_table[i + 1].cmd, cmd) = Fault THEN Fault
  ELSE IF strcmp(cmd_table[i + 1].cmd, cmd) = 0 THEN i
  ELSE lookup_from_noguard(cmd, i + 1)

\* The for loop of lookup, from index i on.
RECURSIVE lookup_from(_, _)
lookup_from(cmd, i) ==
  IF i >= TableLen THEN NotFound
  ELSE IF cmd # NULL /\ strcmp(cmd_table[i + 1].cmd, cmd) = 0 THEN i
  ELSE lookup_from(cmd, i + 1)

lookup(cmd) == lookup_from(cmd, 0)

\* ----------------------------------------------------------------- state
VARIABLES
  \* the environment the shell was started in
  file,        \* the lines standard input will deliver, in order
  seekable,    \* standard input is a regular file (lseek works on it)
  tty,         \* isatty(STDIN_FILENO)
  HOME,        \* getenv("HOME")
  linebuf,     \* stdout is a terminal: stdio makes it line buffered;
               \* otherwise it is fully buffered
  \* kernel state
  offset,      \* file offset of the open file description behind fd 0,
               \* shared by the shell and the children it forks
  cwd,         \* working directory of the shell process
  children,    \* the child processes of the shell that exist
  nextPid,     \* next process id fork hands out
  \* the shell process
  pc,          \* position of the shell in main
  shell_is_interactive,
  line_num,
  rpos, rend,  \* stdio buffer of stdin: it holds file[rpos+1 .. rend]
  line,        \* char line[4096] after fgets
  tokens,      \* struct tokens *tokens
  tokens_live, \* tokens was created and not yet destroyed
  fundex,
  exit_status, \* Running, or the status the shell terminated with
  exitBy,      \* "none", or how the shell terminated: "exit", "eof"
  obuf,        \* stdio buffer of stdout: items written and not yet flushed
  \* observation
  out,         \* what was written to stdout with printf/fprintf, in order
  dev,         \* what reached the file behind stdout, and who flushed it
  err,         \* what was written to stderr, in order
  executed,    \* the Tokens dispatched by the shell, in order
  nread,       \* number of lines fgets has returned
  iter,        \* what happened since the last line was read
  \* the session the shell was started in
  pgrp,        \* getpgrp(): the process group of the shell
  term_fg,     \* tcgetpgrp(0): foreground process group of the terminal,
               \* NoCtty when stdin is not the controlling terminal
  sig_stops,   \* SIGTTIN stops the shell (it is not ignored and the
               \* process group is not orphaned)
  attr_ok,     \* tcgetattr(0, ...) succeeds
  stopped,     \* the shell process is stopped
  shell_pgid,
  tmodes_saved, \* shell_tmodes holds the modes of the terminal
  nobs,        \* times the loop condition of init_shell was found true
  nsig,        \* SIGTTIN signals the shell has sent
  sig_to,      \* the process groups they were sent to
  seen_equal,  \* the loop condition of init_shell was found false
  did,         \* terminal-control calls made after the loop
  failed,      \* terminal-control calls that returned -1
  \* standard input as bytes, for lines longer than line[]
  lens,        \* bytes before the newline of each line of the input
  li,          \* lines of lens fgets has consumed completely
  pending,     \* bytes of line li + 1 still to read, newline included;
               \* 0 when fgets is at the start of a line
  stored,      \* bytes the last fgets wrote to line[], the NUL included
  chunks       \* <<line, bytes>> of each string fgets returned

envVars == <<file, seekable, tty, HOME, linebuf>>
osVars == <<offset, cwd, children, nextPid>>
shVars == <<pc, shell_is_interactive, line_num, rpos, rend, line, tokens,
            tokens_live, fundex, exit_status, exitBy>>
obsVars == <<out, err, executed, nread, iter>>
ioVars == <<obuf, dev>>
sessVars == <<pgrp, term_fg, sig_stops, attr_ok, stopped, shell_pgid,
              tmodes_saved, nobs, nsig, sig_to, seen_equal, did, failed>>
longVars == <<lens, li, pending, stored, chunks>>
vars == <<envVars, osVars, shVars, obsVars, ioVars, sessVars, longVars>>

\* Sequences over S of length at most n.
SeqUpTo(S, n) == UNION { [1..k -> S] : k \in 0..n }

\* Nothing has happened yet in this iteration of the while loop.
IterStart ==
  [forks   |-> 0,      \* fork calls
   spawned |-> {},     \* pids of the children created
   waits   |-> 0,      \* wait calls that returned
   reaped  |-> {},     \* pids whose termination a wait consumed
   ran     |-> {},     \* <<pid, handler>> of the builtin handlers run
   execs   |-> {},     \* pids of the processes that called execv
   destroys |-> 0,     \* tokens_destroy calls
   errs    |-> 0]      \* error messages written

\* One item written to stdout or stderr by process pid.
Item(pid, kind, num, text) ==
  [pid |-> pid, kind |-> kind, num |-> num, text |-> text]

\* fprintf(stdout, "%d: ", n)
PromptItem(n) == Item(ShellPid, "prompt", n, "")

\* perror(prefix) / fprintf(stderr, text) by process pid
ErrItem(pid, prefix) == Item(pid, "error", 0, prefix)

\* Nothing of init_shell has run.
InitSession ==
  /\ stopped = FALSE
  /\ shell_pgid = 0
  /\ tmodes_saved = FALSE
  /\ nobs = 0
  /\ nsig = 0
  /\ sig_to = {}
  /\ seen_equal = FALSE
  /\ did = {}
  /\ failed = {}

\* Nothing was read from the input.
InitBytes ==
  /\ li = 0
  /\ pending = 0
  /\ stored = 0
  /\ chunks = <<>>

\* The shell is the leader of its process group, which is the foreground
\* group of the terminal when there is one.
Init ==
  /\ file \in SeqUpTo(RawLines, MaxLines)
  /\ tty \in BOOLEAN
  /\ seekable \in BOOLEAN
  /\ tty => ~seekable
  /\ HOME \in HomeValues
  /\ linebuf \in BOOLEAN
  /\ offset = 0
  /\ cwd = "/"
  /\ children = {}
  /\ nextPid = ShellPid + 1
  /\ pc = "init"
  /\ shell_is_interactive = FALSE
  /\ line_num = 0
  /\ rpos = 0
  /\ rend = 0
  /\ line = <<>>
  /\ tokens = <<>>
  /\ tokens_live = FALSE
  /\ fundex = NotFound
  /\ exit_status = Running
  /\ exitBy = "none"
  /\ out = <<>>
  /\ obuf = <<>>
  /\ dev = <<>>
  /\ err = <<>>
  /\ executed = <<>>
  /\ nread = 0
  /\ iter = IterStart
  /\ InitSession
  /\ pgrp = ShellPid
  /\ term_fg = ShellPid
  /\ sig_stops = TRUE
  /\ attr_ok = TRUE
  /\ InitBytes
  /\ lens = <<>>

\* ---------------------------------------------------------------- stdout
\* The items of buf as they reach the file behind stdout, flushed by pid.
RECURSIVE Flushed(_, _)
Flushed(pid, buf) ==
  IF buf = <<>> THEN <<>>
  ELSE <<[by |-> pid, item |-> Head(buf)]>> \o Flushed(pid, Tail(buf))

\* printf / fprintf(stdout, ...) in the shell: the items go to the stdio
\* buffer; a line buffered stream is flushed when the text ends in a newline.
Printf(items, newline) ==
  /\ out' = out \o items
  /\ IF linebuf /\ newline
     THEN /\ dev' = dev \o Flushed(ShellPid, obuf \o items)
          /\ obuf' = <<>>
     ELSE /\ obuf' = obuf \o items
          /\ dev' = dev

\* The shell terminates through exit(): stdout is flushed.
ExitFlush ==
  /\ dev' = dev \o Flushed(ShellPid, obuf)
  /\ obuf' = <<>>

\* ------------------------------------------------------------ init_shell
\* init_shell in one step, for a shell whose calls all succeed at once: it
\* is the leader of its process group and that group is in the foreground.
init_shell ==
  /\ pc = "init"
  /\ tty => (term_fg = pgrp /\ pgrp = ShellPid /\ attr_ok)
  /\ shell_is_interactive' = tty
  /\ IF tty
     THEN /\ shell_pgid' = ShellPid
          /\ seen_equal' = TRUE
          /\ did' = {"tcsetpgrp", "tcgetattr"}
          /\ tmodes_saved' = TRUE
     ELSE UNCHANGED <<shell_pgid, seen_equal, did, tmodes_saved>>
  /\ pc' = "prompt0"
  /\ UNCHANGED <<line_num, rpos, rend, line, tokens, tokens_live, fundex,
                 exit_status, exitBy>>
  /\ UNCHANGED <<pgrp, term_fg, sig_stops, attr_ok, stopped, nobs, nsig,
                 sig_to, failed>>
  /\ UNCHANGED <<envVars, longVars, osVars, obsVars>>
  /\ UNCHANGED ioVars

\* ------------------------------------------------------------------ main
\* if (shell_is_interactive) fprintf(stdout, "%d: ", line_num);
FirstPrompt ==
  /\ pc = "prompt0"
  /\ IF shell_is_interactive
     THEN Printf(<<PromptItem(line_num)>>, FALSE)
     ELSE UNCHANGED <<out, obuf, dev>>
  /\ pc' = "read"
  /\ UNCHANGED <<shell_is_interactive, line_num, rpos, rend, line, tokens,
                 tokens_live, fundex, exit_status, exitBy>>
  /\ UNCHANGED <<envVars, sessVars, longVars, osVars, err, executed, nread, iter>>

\* What the body of the loop does with the line fgets returned: tokenize it
\* and look the first token up.
TakeLine(l) ==
  /\ line' = l
  /\ tokens' = tokenize(l)
  /\ tokens_live' = TRUE
  /\ fundex' = lookup(tokens_get_token(tokenize(l), 0))
  /\ nread' = nread + 1
  /\ iter' = IterStart
  /\ pc' = "dispatch"
  /\ UNCHANGED <<shell_is_interactive, line_num, exit_status, exitBy>>
  /\ UNCHANGED <<envVars, sessVars, cwd, children, nextPid, out, err,
                 executed>>

\* read(2) on stdin is not refused: stdin is no terminal, or the shell is in
\* the foreground process group of the terminal.
CanRead == ~tty \/ term_fg = pgrp

\* fgets finds a line in the stdio buffer.
ReadBuffered ==
  /\ pc = "read"
  /\ nread < MaxReads
  /\ rpos < rend
  /\ rpos' = rpos + 1
  /\ UNCHANGED <<rend, offset>>
  /\ TakeLine(file[rpos + 1])
  /\ UNCHANGED ioVars
  /\ UNCHANGED longVars

\* Before read(2) is called for a line buffered or unbuffered stream, and
\* stdin on a terminal is one, glibc flushes stdout if it is line buffered.
RefillFlush ==
  IF tty /\ linebuf
  THEN /\ dev' = dev \o Flushed(ShellPid, obuf)
       /\ obuf' = <<>>
  ELSE UNCHANGED <<obuf, dev>>

\* fgets finds the buffer empty and refills it with read(2), which delivers
\* k lines: one from a terminal, any number that is there otherwise.
ReadRefill ==
  /\ pc = "read"
  /\ CanRead
  /\ nread < MaxReads
  /\ rpos = rend
  /\ offset < Len(file)
  /\ \E k \in 1..(Len(file) - offset) :
       /\ tty => k = 1
       /\ rpos' = offset + 1
       /\ rend' = offset + k
       /\ offset' = offset + k
  /\ TakeLine(file[offset + 1])
  /\ RefillFlush
  /\ UNCHANGED longVars

\* Variant: end-of-input is reported as a failure, with a last prompt.
ReadEof_fail ==
  /\ pc = "read"
  /\ rpos = rend
  /\ offset = Len(file)
  /\ pc' = "done"
  /\ exit_status' = EXIT_FAILURE
  /\ exitBy' = "eof"
  /\ out' = Append(out, PromptItem(line_num))
  /\ UNCHANGED <<shell_is_interactive, line_num, rpos, rend, line, tokens,
                 tokens_live, fundex>>
  /\ UNCHANGED <<envVars, sessVars, longVars, osVars, err, executed, nread, iter>>
  /\ dev' = dev \o Flushed(ShellPid, Append(obuf, PromptItem(line_num)))
  /\ obuf' = <<>>

\* fgets returns NULL: the buffer is empty and read(2) returns 0.  The loop
\* ends and main returns 0.
ReadEof ==
  /\ pc = "read"
  /\ CanRead
  /\ rpos = rend
  /\ offset = Len(file)
  /\ pc' = "done"
  /\ exit_status' = 0
  /\ exitBy' = "eof"
  /\ UNCHANGED <<shell_is_interactive, line_num, rpos, rend, line, tokens,
                 tokens_live, fundex>>
  /\ UNCHANGED <<envVars, sessVars, longVars, osVars, obsVars>>
  /\ ExitFlush

\* Token 0 of t.
Token0X(t) == tokens_get_token(t, 0)

\* The loop dispatches tokens: cmd_table[fundex].fun(tokens) or fork.
Dispatched == executed' = Append(executed, tokens)

\* The handler cmd_table[fundex].fun is f.
Handler(f) ==
  /\ pc = "dispatch"
  /\ fundex >= 0
  /\ cmd_table[fundex + 1].fun = f

\* What every builtin handler that returns leaves alone, and the step to the
\* prompt at the end of the loop body.
Returned(f, nerr) ==
  /\ iter' = [iter EXCEPT !.ran = @ \cup {<<ShellPid, f>>},
                          !.errs = @ + nerr]
  /\ Dispatched
  /\ pc' = "prompt"
  /\ UNCHANGED <<shell_is_interactive, line_num, rpos, rend, line, tokens,
                 tokens_live, fundex, exit_status, exitBy>>
  /\ UNCHANGED <<envVars, sessVars, longVars, offset, children, nextPid, nread>>

\* Variant: the status is taken from the argument, exit(atoi(token 1)).
cmd_exit_arg ==
  /\ Handler("cmd_exit")
  /\ pc' = "done"
  /\ exit_status' = (IF tokens_get_token(tokens, 1) = "1" THEN 1 ELSE 0)
  /\ exitBy' = "exit"
  /\ iter' = [iter EXCEPT !.ran = @ \cup {<<ShellPid, "cmd_exit">>}]
  /\ Dispatched
  /\ UNCHANGED <<shell_is_interactive, line_num, rpos, rend, line, tokens,
                 tokens_live, fundex>>
  /\ UNCHANGED <<envVars, sessVars, longVars, osVars, out, err, nread>>
  /\ ExitFlush

\* int cmd_exit(tokens) { exit(0); }
cmd_exit ==
  /\ Handler("cmd_exit")
  /\ pc' = "done"
  /\ exit_status' = 0
  /\ exitBy' = "exit"
  /\ iter' = [iter EXCEPT !.ran = @ \cup {<<ShellPid, "cmd_exit">>}]
  /\ Dispatched
  /\ UNCHANGED <<shell_is_interactive, line_num, rpos, rend, line, tokens,
                 tokens_live, fundex>>
  /\ UNCHANGED <<envVars, sessVars, longVars, osVars, out, err, nread>>
  /\ ExitFlush

\* The lines cmd_help prints, entries i+1 .. TableLen of the table.
RECURSIVE HelpItems(_)
HelpItems(i) ==
  IF i >= TableLen THEN <<>>
  ELSE <<Item(ShellPid, "help", i, cmd_table[i + 1].cmd)>> \o HelpItems(i + 1)

cmd_help ==
  /\ Handler("cmd_help")
  /\ Printf(HelpItems(0), TRUE)
  /\ Returned("cmd_help", 0)
  /\ UNCHANGED <<cwd, err>>

\* getcwd may fail (the directory was removed); then perror reports it.
cmd_pwd ==
  /\ Handler("cmd_pwd")
  /\ \E ok \in BOOLEAN :
       IF ok
       THEN /\ Printf(<<Item(ShellPid, "cwd", 0, cwd)>>, TRUE)
            /\ err' = err
            /\ Returned("cmd_pwd", 0)
       ELSE /\ err' = Append(err, ErrItem(ShellPid, "getcwd() error"))
            /\ UNCHANGED <<out, obuf, dev>>
            /\ Returned("cmd_pwd", 1)
  /\ UNCHANGED cwd

\* Variant: the argument is taken from index 2.
CdTarget_idx(t) ==
  IF tokens_get_length(t) = 1 THEN HOME ELSE tokens_get_token(t, 2)

\* The directory cmd_cd hands to chdir: getenv("HOME") when the line has one
\* token, token 1 otherwise.
CdTarget(t) ==
  IF tokens_get_length(t) = 1 THEN HOME ELSE tokens_get_token(t, 1)

\* Variant: a failing cd terminates the shell.
cmd_cd_fatal ==
  /\ Handler("cmd_cd")
  /\ LET dir == CdTarget(tokens) IN
       IF dir # NULL /\ ChdirOk(cwd, dir)
       THEN /\ cwd' = Resolve(cwd, dir)
            /\ err' = err
            /\ Returned("cmd_cd", 0)
       ELSE /\ err' = Append(err, ErrItem(ShellPid, "cd"))
            /\ cwd' = cwd
            /\ pc' = "done"
            /\ exit_status' = EXIT_FAILURE
            /\ exitBy' = "error"
            /\ iter' = [iter EXCEPT !.ran = @ \cup {<<ShellPid, "cmd_cd">>},
                                    !.errs = @ + 1]
            /\ Dispatched
            /\ UNCHANGED <<shell_is_interactive, line_num, rpos, rend, line,
                           tokens, tokens_live, fundex>>
            /\ UNCHANGED <<envVars, sessVars, longVars, offset, children, nextPid, nread>>
  /\ UNCHANGED <<out, obuf, dev>>

cmd_cd ==
  /\ Handler("cmd_cd")
  /\ LET dir == CdTarget(tokens) IN
       IF dir = NULL
       THEN \* fprintf(stderr, "No HOME environment variable set.\n")
            /\ err' = Append(err, ErrItem(ShellPid,
                                 "No HOME environment variable set."))
            /\ cwd' = cwd
            /\ Returned("cmd_cd", 1)
       ELSE IF ChdirOk(cwd, dir)
       THEN /\ cwd' = Resolve(cwd, dir)
            /\ err' = err
            /\ Returned("cmd_cd", 0)
       ELSE \* perror("cd")
            /\ err' = Append(err, ErrItem(ShellPid, "cd"))
            /\ cwd' = cwd
            /\ Returned("cmd_cd", 1)
  /\ UNCHANGED <<out, obuf, dev>>

\* ------------------------------------------------- fork / execv / wait
\* The child fork creates: a copy of the shell with its tokens and with its
\* stdio buffers: of stdin, delta = read pointer - read end, and of stdout.
NewChild(pid) ==
  [pid |-> pid, st |-> "forked", status |-> Running, execFailed |-> FALSE,
   tok |-> tokens, delta |-> rpos - rend, obuf |-> obuf,
   path |-> NULL, argv |-> <<>>]

\* Variant: the shell does not wait for the child.
Fork_nowait ==
  /\ pc = "dispatch"
  /\ fundex # Fault
  /\ ~(fundex >= 0)
  /\ \E ok \in BOOLEAN :
       IF ok
       THEN /\ children' = children \cup {NewChild(nextPid)}
            /\ nextPid' = nextPid + 1
            /\ iter' = [iter EXCEPT !.forks = @ + 1,
                                    !.spawned = @ \cup {nextPid}]
       ELSE /\ UNCHANGED <<children, nextPid>>
            /\ iter' = [iter EXCEPT !.forks = @ + 1]
  /\ Dispatched
  /\ pc' = "prompt"
  /\ UNCHANGED <<shell_is_interactive, line_num, rpos, rend, line, tokens,
                 tokens_live, fundex, exit_status, exitBy>>
  /\ UNCHANGED <<envVars, sessVars, longVars, offset, cwd, out, err, nread>>
  /\ UNCHANGED ioVars

\* Variant: the child branch is taken for pid <= 0, so that after a failed
\* fork the shell itself calls execv, which fails here, and exits.
Fork_childonfail ==
  /\ pc = "dispatch"
  /\ fundex # Fault
  /\ ~(fundex >= 0)
  /\ \E ok \in BOOLEAN :
       IF ok
       THEN /\ children' = children \cup {NewChild(nextPid)}
            /\ nextPid' = nextPid + 1
            /\ iter' = [iter EXCEPT !.forks = @ + 1,
                                    !.spawned = @ \cup {nextPid}]
            /\ pc' = "wait"
            /\ UNCHANGED <<err, exit_status, exitBy>>
       ELSE /\ UNCHANGED <<children, nextPid>>
            /\ iter' = [iter EXCEPT !.forks = @ + 1, !.errs = @ + 1,
                                    !.execs = @ \cup {ShellPid}]
            /\ err' = Append(err, ErrItem(ShellPid, Token0X(tokens)))
            /\ pc' = "done"
            /\ exit_status' = EXIT_FAILURE
            /\ exitBy' = "error"
  /\ Dispatched
  /\ UNCHANGED <<shell_is_interactive, line_num, rpos, rend, line, tokens,
                 tokens_live, fundex>>
  /\ UNCHANGED <<envVars, sessVars, longVars, offset, cwd, out, nread>>
  /\ UNCHANGED ioVars

\* pid_t pid = fork(); in the shell.  fork may fail (pid = -1, no child);
\* either way the shell takes the else branch and calls wait.
Fork ==
  /\ pc = "dispatch"
  /\ fundex # Fault
  /\ ~(fundex >= 0)
  /\ \E ok \in BOOLEAN :
       IF ok
       THEN /\ children' = children \cup {NewChild(nextPid)}
            /\ nextPid' = nextPid + 1
            /\ iter' = [iter EXCEPT !.forks = @ + 1,
                                    !.spawned = @ \cup {nextPid}]
       ELSE /\ UNCHANGED <<children, nextPid>>
            /\ iter' = [iter EXCEPT !.forks = @ + 1]
  /\ Dispatched
  /\ pc' = "wait"
  /\ UNCHANGED <<shell_is_interactive, line_num, rpos, rend, line, tokens,
                 tokens_live, fundex, exit_status, exitBy>>
  /\ UNCHANGED <<envVars, sessVars, longVars, offset, cwd, out, err, nread>>
  /\ UNCHANGED ioVars

\* Variant: the for loop starts at token 1, the program name is left out.
argv_exec_shift(t) ==
  [i \in 1..(tokens_get_length(t) + 1) |-> tokens_get_token(t, i)]

\* char *argv_exec[num_tokens + 1], filled by the for loop and closed by NULL.
argv_exec(t) ==
  [i \in 1..(tokens_get_length(t) + 1) |-> tokens_get_token(t, i - 1)]

\* Child c becomes c2.
Becomes(c, c2) == children' = (children \ {c}) \cup {c2}

\* Child c has called execv(argv_exec[0], argv_exec).
Execv(c) ==
  [c EXCEPT !.path = argv_exec(c.tok)[1], !.argv = argv_exec(c.tok)]

\* execv(argv_exec[0], argv_exec) succeeds: the child now runs the program.
ChildExecOk ==
  \E c \in children :
    /\ c.st = "forked"
    /\ argv_exec(c.tok)[1] \in Executables
    /\ Becomes(c, [Execv(c) EXCEPT !.st = "running"])
    /\ iter' = [iter EXCEPT !.execs = @ \cup {c.pid}]
    /\ UNCHANGED <<envVars, sessVars, longVars, offset, cwd, nextPid, shVars>>
    /\ UNCHANGED <<out, err, executed, nread>>
    /\ UNCHANGED ioVars

\* exit() in a child flushes its copy of the stdio streams: what its copy of
\* the stdout buffer holds is written, and for stdin on a seekable file it
\* moves the shared file offset back by the part of the
\* buffer the child has not consumed, lseek(0, delta, SEEK_CUR).
ExitSeek(delta) ==
  IF seekable /\ delta # 0 /\ offset + delta >= 0 THEN offset + delta
  ELSE offset

\* Variant: the message names the call, perror("execv").
ChildExecFail_generic ==
  \E c \in children :
    /\ c.st = "forked"
    /\ err' = Append(err, ErrItem(c.pid, "execv"))
    /\ iter' = [iter EXCEPT !.errs = @ + 1, !.execs = @ \cup {c.pid}]
    /\ offset' = ExitSeek(c.delta)
    /\ Becomes(c, [Execv(c) EXCEPT !.st = "zombie",
                                   !.status = EXIT_FAILURE,
                                   !.execFailed = TRUE])
    /\ UNCHANGED <<envVars, sessVars, longVars, cwd, nextPid, shVars, out, executed, nread>>
    /\ dev' = dev \o Flushed(c.pid, c.obuf)
    /\ UNCHANGED obuf

\* execv returns: perror(argv_exec[0]); exit(EXIT_FAILURE);
ChildExecFail ==
  \E c \in children :
    /\ c.st = "forked"
    /\ err' = Append(err, ErrItem(c.pid, argv_exec(c.tok)[1]))
    /\ iter' = [iter EXCEPT !.errs = @ + 1, !.execs = @ \cup {c.pid}]
    /\ offset' = ExitSeek(c.delta)
    /\ Becomes(c, [Execv(c) EXCEPT !.st = "zombie",
                                   !.status = EXIT_FAILURE,
                                   !.execFailed = TRUE])
    /\ UNCHANGED <<envVars, sessVars, longVars, cwd, nextPid, shVars, out, executed, nread>>
    /\ dev' = dev \o Flushed(c.pid, c.obuf)
    /\ UNCHANGED obuf

\* The program the child runs terminates, with any status.
ChildTerminate ==
  \E c \in children :
    /\ c.st = "running"
    /\ \E st \in {0, 1} :
         Becomes(c, [c EXCEPT !.st = "zombie", !.status = st])
    /\ UNCHANGED <<envVars, sessVars, longVars, offset, cwd, nextPid, shVars, obsVars>>
    /\ UNCHANGED ioVars

\* Variant: the wait does not block (WNOHANG): it also returns, reaping
\* nothing, while the child has not terminated.
Wait_nohang ==
  /\ pc = "wait"
  /\ \/ /\ \A c \in children : c.st # "zombie"
        /\ iter' = [iter EXCEPT !.waits = @ + 1]
        /\ UNCHANGED children
     \/ \E c \in children :
          /\ c.st = "zombie"
          /\ children' = children \ {c}
          /\ iter' = [iter EXCEPT !.waits = @ + 1,
                                  !.reaped = @ \cup {c.pid}]
  /\ pc' = "prompt"
  /\ UNCHANGED <<shell_is_interactive, line_num, rpos, rend, line, tokens,
                 tokens_live, fundex, exit_status, exitBy>>
  /\ UNCHANGED <<envVars, sessVars, longVars, offset, cwd, nextPid, out, err, executed, nread>>
  /\ UNCHANGED ioVars

\* wait(NULL) returns: it consumed the termination of a child, or there is
\* no child (ECHILD).  While a child exists and none has terminated, the
\* shell stays blocked here.
Wait ==
  /\ pc = "wait"
  /\ \/ /\ children = {}
        /\ iter' = [iter EXCEPT !.waits = @ + 1]
        /\ UNCHANGED children
     \/ \E c \in children :
          /\ c.st = "zombie"
          /\ children' = children \ {c}
          /\ iter' = [iter EXCEPT !.waits = @ + 1,
                                  !.reaped = @ \cup {c.pid}]
  /\ pc' = "prompt"
  /\ UNCHANGED <<shell_is_interactive, line_num, rpos, rend, line, tokens,
                 tokens_live, fundex, exit_status, exitBy>>
  /\ UNCHANGED <<envVars, sessVars, longVars, offset, cwd, nextPid, out, err, executed, nread>>
  /\ UNCHANGED ioVars

\* Variant: line_num++ instead of ++line_num.
Prompt_postinc ==
  /\ pc = "prompt"
  /\ IF shell_is_interactive
     THEN /\ line_num' = line_num + 1
          /\ Printf(<<PromptItem(line_num)>>, FALSE)
     ELSE UNCHANGED <<line_num, out, obuf, dev>>
  /\ pc' = "destroy"
  /\ UNCHANGED <<shell_is_interactive, rpos, rend, line, tokens,
                 tokens_live, fundex, exit_status, exitBy>>
  /\ UNCHANGED <<envVars, sessVars, longVars, osVars, err, executed, nread, iter>>

\* if (shell_is_interactive) fprintf(stdout, "%d: ", ++line_num);
Prompt ==
  /\ pc = "prompt"
  /\ IF shell_is_interactive
     THEN /\ line_num' = line_num + 1
          /\ Printf(<<PromptItem(line_num + 1)>>, FALSE)
     ELSE UNCHANGED <<line_num, out, obuf, dev>>
  /\ pc' = "destroy"
  /\ UNCHANGED <<shell_is_interactive, rpos, rend, line, tokens,
                 tokens_live, fundex, exit_status, exitBy>>
  /\ UNCHANGED <<envVars, sessVars, longVars, osVars, err, executed, nread, iter>>

\* Variant: the tokens are not released.
Destroy_leak ==
  /\ pc = "destroy"
  /\ pc' = "read"
  /\ UNCHANGED <<shell_is_interactive, line_num, rpos, rend, line, tokens,
                 tokens_live, fundex, exit_status, exitBy>>
  /\ UNCHANGED <<envVars, sessVars, longVars, osVars, obsVars>>
  /\ UNCHANGED ioVars

\* tokens_destroy(tokens); and back to the loop condition.
Destroy ==
  /\ pc = "destroy"
  /\ tokens_live' = FALSE
  /\ iter' = [iter EXCEPT !.destroys = @ + 1]
  /\ pc' = "read"
  /\ UNCHANGED <<shell_is_interactive, line_num, rpos, rend, line, tokens,
                 fundex, exit_status, exitBy>>
  /\ UNCHANGED <<envVars, sessVars, longVars, osVars, out, err, executed, nread>>
  /\ UNCHANGED ioVars

Next ==
  \/ init_shell
  \/ FirstPrompt
  \/ ReadBuffered
  \/ ReadRefill
  \/ ReadEof
  \/ cmd_exit
  \/ cmd_help
  \/ cmd_pwd
  \/ cmd_cd
  \/ Fork
  \/ ChildExecOk
  \/ ChildExecFail
  \/ ChildTerminate
  \/ Wait
  \/ Prompt
  \/ Destroy

Spec == Init /\ [][Next]_vars

\* -------------------------------------- init_shell in a job-control session
\* Cap on the SIGTTIN signals of one run.
MaxSignals == 3

\* The inputs of the runs that follow init_shell up to the first read.
StartFiles == {<<>>, <<<<"pwd">>>>}

\* The shell is started on input that may be a terminal, as the leader of
\* its process group or as a member of another one, in the foreground or
\* not, or with a terminal on stdin that is not its controlling terminal.
InitStart ==
  /\ file \in StartFiles
  /\ tty \in BOOLEAN
  /\ seekable = FALSE
  /\ HOME = NULL
  /\ linebuf \in BOOLEAN
  /\ offset = 0
  /\ cwd = "/"
  /\ children = {}
  /\ nextPid = ShellPid + 1
  /\ pc = "init"
  /\ shell_is_interactive = FALSE
  /\ line_num = 0
  /\ rpos = 0
  /\ rend = 0
  /\ line = <<>>
  /\ tokens = <<>>
  /\ tokens_live = FALSE
  /\ fundex = NotFound
  /\ exit_status = Running
  /\ exitBy = "none"
  /\ out = <<>>
  /\ obuf = <<>>
  /\ dev = <<>>
  /\ err = <<>>
  /\ executed = <<>>
  /\ nread = 0
  /\ iter = IterStart
  /\ InitSession
  /\ pgrp \in {ShellPid, JobPgid}
  /\ term_fg \in {pgrp, SupervisorPgid, NoCtty}
  /\ sig_stops \in BOOLEAN
  /\ attr_ok \in BOOLEAN
  /\ InitBytes
  /\ lens = <<>>

\* What a step of init_shell leaves alone besides the session.
InitFrame ==
  /\ UNCHANGED <<line_num, rpos, rend, line, tokens, tokens_live, fundex,
                 exit_status, exitBy>>
  /\ UNCHANGED <<envVars, longVars, osVars, obsVars, ioVars>>
  /\ UNCHANGED <<pgrp, sig_stops, attr_ok>>

\* shell_terminal = STDIN_FILENO;
\* shell_is_interactive = isatty(shell_terminal);
\* if (shell_is_interactive) { ... }
init_isatty ==
  /\ pc = "init"
  /\ ~stopped
  /\ shell_is_interactive' = tty
  /\ pc' = IF tty THEN "loop" ELSE "prompt0"
  /\ UNCHANGED <<term_fg, stopped, shell_pgid, tmodes_saved, nobs, nsig,
                 sig_to, seen_equal, did, failed>>
  /\ InitFrame

\* Variant: one test of the foreground group instead of a loop.
init_observe_once ==
  /\ pc = "loop"
  /\ ~stopped
  /\ nsig < MaxSignals \/ term_fg = pgrp
  /\ shell_pgid' = pgrp
  /\ failed' = IF term_fg = NoCtty THEN failed \cup {"tcgetpgrp"} ELSE failed
  /\ IF term_fg # pgrp /\ nsig = 0
     THEN /\ nobs' = nobs + 1
          /\ pc' = "kill"
          /\ UNCHANGED seen_equal
     ELSE /\ seen_equal' = (term_fg = pgrp)
          /\ pc' = "getpid"
          /\ UNCHANGED nobs
  /\ UNCHANGED <<shell_is_interactive, term_fg, stopped, tmodes_saved, nsig,
                 sig_to, did>>
  /\ InitFrame

\* while (tcgetpgrp(shell_terminal) != (shell_pgid = getpgrp()))
init_observe ==
  /\ pc = "loop"
  /\ ~stopped
  /\ nsig < MaxSignals \/ term_fg = pgrp
  /\ shell_pgid' = pgrp
  /\ failed' = IF term_fg = NoCtty THEN failed \cup {"tcgetpgrp"} ELSE failed
  /\ IF term_fg # pgrp
     THEN /\ nobs' = nobs + 1
          /\ pc' = "kill"
          /\ UNCHANGED seen_equal
     ELSE /\ seen_equal' = TRUE
          /\ pc' = "getpid"
          /\ UNCHANGED nobs
  /\ UNCHANGED <<shell_is_interactive, term_fg, stopped, tmodes_saved, nsig,
                 sig_to, did>>
  /\ InitFrame

\*   kill(-shell_pgid, SIGTTIN);
\* The signal goes to every process of the group, the shell included, and
\* stops it unless the signal is ignored or the group is orphaned.
init_kill ==
  /\ pc = "kill"
  /\ ~stopped
  /\ nsig' = nsig + 1
  /\ sig_to' = sig_to \cup {shell_pgid}
  /\ stopped' = sig_stops
  /\ pc' = "loop"
  /\ UNCHANGED <<shell_is_interactive, term_fg, shell_pgid, tmodes_saved,
                 nobs, seen_equal, did, failed>>
  /\ InitFrame

\* shell_pgid = getpid();
init_getpid ==
  /\ pc = "getpid"
  /\ ~stopped
  /\ shell_pgid' = ShellPid
  /\ pc' = "tcsetpgrp"
  /\ UNCHANGED <<shell_is_interactive, term_fg, stopped, tmodes_saved, nobs,
                 nsig, sig_to, seen_equal, did, failed>>
  /\ InitFrame

\* The results tcsetpgrp(fd, pgid) can have: it fails when fd is not the
\* controlling terminal and succeeds for the id of a process group of the
\* session.  For the pid of a process of the session that leads no group
\* POSIX has it fail with EPERM, and Linux accepts it.
TcsetpgrpResults(fg, pgid) ==
  IF fg = NoCtty THEN {FALSE}
  ELSE IF pgid \in {pgrp, SupervisorPgid} THEN {TRUE}
  ELSE BOOLEAN

\* tcsetpgrp(shell_terminal, shell_pgid);   the result is not looked at
init_tcsetpgrp ==
  /\ pc = "tcsetpgrp"
  /\ ~stopped
  /\ did' = did \cup {"tcsetpgrp"}
  /\ \E ok \in TcsetpgrpResults(term_fg, shell_pgid) :
       IF ok
       THEN term_fg' = shell_pgid /\ UNCHANGED failed
       ELSE failed' = failed \cup {"tcsetpgrp"} /\ UNCHANGED term_fg
  /\ pc' = "tcgetattr"
  /\ UNCHANGED <<shell_is_interactive, stopped, shell_pgid, tmodes_saved,
                 nobs, nsig, sig_to, seen_equal>>
  /\ InitFrame

\* tcgetattr(shell_terminal, &shell_tmodes);   the result is not looked at
init_tcgetattr ==
  /\ pc = "tcgetattr"
  /\ ~stopped
  /\ did' = did \cup {"tcgetattr"}
  /\ IF attr_ok
     THEN tmodes_saved' = TRUE /\ UNCHANGED failed
     ELSE failed' = failed \cup {"tcgetattr"} /\ UNCHANGED tmodes_saved
  /\ pc' = "prompt0"
  /\ UNCHANGED <<shell_is_interactive, term_fg, stopped, shell_pgid, nobs,
                 nsig, sig_to, seen_equal>>
  /\ InitFrame

\* What a step of the supervising shell leaves alone.
SupervisorFrame ==
  /\ UNCHANGED <<shVars, envVars, longVars, osVars, obsVars, ioVars>>
  /\ UNCHANGED <<pgrp, sig_stops, attr_ok, shell_pgid, tmodes_saved, nobs,
                 nsig, sig_to, seen_equal, did, failed>>

\* The supervising shell moves the shell's job to the foreground with
\* tcsetpgrp, while the shell is in its loop.
SupForeground ==
  /\ pc \in {"init", "loop", "kill"}
  /\ term_fg \notin {NoCtty, pgrp}
  /\ term_fg' = pgrp
  /\ UNCHANGED stopped
  /\ SupervisorFrame

\* It takes the terminal back.
SupBackground ==
  /\ pc \in {"init", "loop", "kill"}
  /\ term_fg = pgrp
  /\ ~seen_equal
  /\ term_fg' = SupervisorPgid
  /\ UNCHANGED stopped
  /\ SupervisorFrame

\* It continues the job: kill(-pgrp, SIGCONT).
SupContinue ==
  /\ stopped
  /\ stopped' = FALSE
  /\ UNCHANGED term_fg
  /\ SupervisorFrame

\* fgets calls read(2) on a terminal whose foreground group is not the
\* group of the shell: the shell is stopped by SIGTTIN, or, when that cannot
\* stop it, read fails with EIO, fgets returns NULL and main returns 0.
ReadBackground ==
  /\ pc = "read"
  /\ ~stopped
  /\ ~CanRead
  /\ IF sig_stops
     THEN /\ stopped' = TRUE
          /\ UNCHANGED <<shVars, ioVars>>
     ELSE /\ pc' = "done"
          /\ exit_status' = 0
          /\ exitBy' = "eof"
          /\ ExitFlush
          /\ UNCHANGED <<shell_is_interactive, line_num, rpos, rend, line,
                         tokens, tokens_live, fundex, stopped>>
  /\ UNCHANGED <<envVars, longVars, osVars, obsVars>>
  /\ UNCHANGED <<pgrp, term_fg, sig_stops, attr_ok, shell_pgid, tmodes_saved,
                 nobs, nsig, sig_to, seen_equal, did, failed>>

\* A step of init_shell.
InitStep ==
  \/ init_isatty
  \/ init_observe
  \/ init_kill
  \/ init_getpid
  \/ init_tcsetpgrp
  \/ init_tcgetattr

\* The start of main: init_shell step by step, the first prompt and the
\* first call of fgets.
NextStart ==
  \/ InitStep
  \/ SupForeground
  \/ SupBackground
  \/ SupContinue
  \/ FirstPrompt
  \/ ReadRefill
  \/ ReadEof
  \/ ReadBackground

SpecInit == InitStart /\ [][NextStart]_vars

\* A process that is not stopped runs.
SpecInitLive == SpecInit /\ WF_vars(InitStep)

\* ------------------------------------------ lines longer than line[4096]
\* static char line[4096];  fgets(line, 4096, stdin)
LineSize == 4096

\* Cap on the lines of an input given by its bytes.
MaxLongLines == 2

\* Bytes before the newline of a line: empty, short, around the size of
\* line[] and around twice that size.
LongLens ==
  {0, 1, LineSize - 2, LineSize - 1, LineSize, 2 * LineSize - 3,
   2 * LineSize - 2, 2 * LineSize - 1}

\* A run of non-blank bytes of any length, as one word.
LongWord == "xxxxxxxx"

Min(a, b) == IF a < b THEN a ELSE b

\* The input is a pipe or a terminal that delivers lines of non-blank bytes.
InitLong ==
  /\ file = <<>>
  /\ tty \in BOOLEAN
  /\ seekable = FALSE
  /\ HOME = NULL
  /\ linebuf \in BOOLEAN
  /\ offset = 0
  /\ cwd = "/"
  /\ children = {}
  /\ nextPid = ShellPid + 1
  /\ pc = "init"
  /\ shell_is_interactive = FALSE
  /\ line_num = 0
  /\ rpos = 0
  /\ rend = 0
  /\ line = <<>>
  /\ tokens = <<>>
  /\ tokens_live = FALSE
  /\ fundex = NotFound
  /\ exit_status = Running
  /\ exitBy = "none"
  /\ out = <<>>
  /\ obuf = <<>>
  /\ dev = <<>>
  /\ err = <<>>
  /\ executed = <<>>
  /\ nread = 0
  /\ iter = IterStart
  /\ InitSession
  /\ pgrp = ShellPid
  /\ term_fg = ShellPid
  /\ sig_stops = TRUE
  /\ attr_ok = TRUE
  /\ InitBytes
  /\ lens \in SeqUpTo(LongLens, MaxLongLines)

\* Variant: fgets fills all of line[] with bytes of the input.
FgetsChunk_full(p) == Min(p, LineSize)

\* The bytes fgets(line, LineSize, stdin) takes from an input whose current
\* line has p bytes left, newline included: it stops after the newline or
\* after LineSize - 1 bytes.
FgetsChunk(p) == Min(p, LineSize - 1)

\* fgets returns the next string of the input: the rest of the current
\* line, or its first LineSize - 1 bytes, followed by a NUL.  A string
\* that is only the newline has no word.
LongFgets ==
  /\ pc = "read"
  /\ li < Len(lens)
  /\ LET p == IF pending = 0 THEN lens[li + 1] + 1 ELSE pending
         n == FgetsChunk(p)
     IN /\ stored' = n + 1
        /\ chunks' = Append(chunks, <<li + 1, n>>)
        /\ pending' = p - n
        /\ li' = IF p = n THEN li + 1 ELSE li
        /\ TakeLine(IF p = 1 THEN <<>> ELSE <<LongWord>>)
  /\ RefillFlush
  /\ UNCHANGED <<rpos, rend, offset, lens>>

\* fgets returns NULL when all lines are consumed.
LongEof ==
  /\ li = Len(lens)
  /\ ReadEof

\* main on an input given by its bytes; no string of it names a builtin or
\* a program.
NextLong ==
  \/ init_shell
  \/ FirstPrompt
  \/ LongFgets
  \/ LongEof
  \/ Fork
  \/ ChildExecFail
  \/ Wait
  \/ Prompt
  \/ Destroy

SpecLong == InitLong /\ [][NextLong]_vars

\* ---------------------------------------------------------------- claims
Token0 == tokens_get_token(tokens, 0)

\* a is an initial segment of b
IsPrefix(a, b) == Len(a) <= Len(b) /\ SubSeq(b, 1, Len(a)) = a

IsPromptItem(it) == it.kind = "prompt"

\* The prompts written so far.
Prompts == SelectSeq(out, IsPromptItem)

\* The loop body has finished dispatching the current line.
AfterDispatch == pc \in {"prompt", "destroy", "read", "done"}

\* The line read last was dispatched as an external command.
ExternalLine == nread > 0 /\ fundex = NotFound

\* C1: at most one child of the shell exists, and while a child exists the
\* shell is blocked in wait: it writes no prompt, reads no line and
\* dispatches no command.
C1_OneChildParentBlocked ==
  /\ [](Cardinality(children) <= 1 /\ (children # {} => pc = "wait"))
  /\ [][children # {} =>
          /\ out' = out
          /\ nread' = nread
          /\ executed' = executed
          /\ pc' \in {"wait", "prompt"}]_vars

C1_Witness ==
  /\ pc = "wait"
  /\ \E c \in children : c.st = "running"

\* C2 as stated: for every line dispatched as an external command exactly
\* one child is created, exactly one wait is performed, and that wait
\* consumes the termination of that child.
C2_ExactlyOneChildOneWait ==
  ExternalLine =>
    /\ pc = "wait" => Cardinality(iter.spawned) = 1 /\ iter.waits = 0
    /\ AfterDispatch =>
         /\ iter.forks = 1
         /\ Cardinality(iter.spawned) = 1
         /\ iter.waits = 1
         /\ iter.reaped = iter.spawned
         /\ children = {}

\* C2 amended: for every line dispatched as an external command the shell
\* calls fork once and wait once; a child that fork created is the one the
\* wait reaps, when fork failed there is no child and the wait reaps
\* nothing, and no child is left when the next line is read.
C2_OneForkOneWait ==
  ExternalLine =>
    /\ Cardinality(iter.spawned) <= 1
    /\ iter.forks = (IF pc = "dispatch" THEN 0 ELSE 1)
    /\ iter.waits = (IF AfterDispatch THEN 1 ELSE 0)
    /\ pc = "wait" =>
         /\ iter.reaped = {}
         /\ {c.pid : c \in children} = iter.spawned
    /\ AfterDispatch => iter.reaped = iter.spawned /\ children = {}

C2_Witness ==
  /\ ExternalLine
  /\ pc = "prompt"
  /\ iter.spawned # {}
  /\ iter.reaped = iter.spawned
  /\ iter.waits = 1

\* C3: the shell terminates only by the exit builtin or by end-of-input;
\* after a command that reported a failure it is still running and on its
\* way to read the next line.
C3_OnlyExitOrEofTerminates ==
  /\ [](iter.errs > 0 /\ pc # "done" =>
          /\ exit_status = Running
          /\ pc \in {"wait", "prompt", "destroy", "read"})
  /\ [](pc = "done" => exitBy \in {"exit", "eof"})
  /\ [][pc # "done" /\ pc' = "done" =>
          \/ pc = "read" /\ rpos = rend /\ offset = Len(file)
          \/ pc = "dispatch" /\ Token0 = "exit"]_vars

C3_Witness ==
  /\ pc = "dispatch"
  /\ nread = 2
  /\ Len(err) > 0
  /\ exit_status = Running

\* C4: a child whose execv failed has reported an error naming token 0 and
\* has terminated with a non-zero status without running any part of the
\* loop; the shell is not affected, goes on, and ends with status 0.
C4_ExecFailureStaysInChild ==
  /\ [](\A c \in children :
          c.execFailed =>
            /\ c.st = "zombie"
            /\ c.status # 0
            /\ \E i \in DOMAIN err :
                 err[i] = ErrItem(c.pid, tokens_get_token(c.tok, 0))
            /\ pc = "wait"
            /\ exit_status = Running)
  /\ [](/\ \A i \in DOMAIN out : out[i].pid = ShellPid
        /\ \A r \in iter.ran : r[1] = ShellPid)
  /\ [](pc = "done" => exit_status = 0)
  /\ [][Len(err') > Len(err) /\ err'[Len(err')].pid # ShellPid =>
          UNCHANGED <<shVars, out, executed, nread>>]_vars

C4_Witness ==
  /\ pc = "done"
  /\ exit_status = 0
  /\ nread = 2
  /\ \E i \in DOMAIN err : err[i].pid # ShellPid /\ err[i].text = "EXIT"

\* C5: with a non-interactive input stream no prompt is written and the
\* commands executed are the lines of the input, each once and in order.
C5_EachLineOnceInOrder ==
  ~tty =>
    /\ Prompts = <<>>
    /\ IsPrefix(executed, TokenizeAll(file))
    /\ exitBy = "eof" => executed = TokenizeAll(file)

\* The index of the registry entry named name, or NotFound.
ExpectedIndex(name) ==
  IF \E i \in 0..(Len(cmd_table) - 1) : cmd_table[i + 1].cmd = name
  THEN CHOOSE i \in 0..(Len(cmd_table) - 1) : cmd_table[i + 1].cmd = name
  ELSE NotFound

\* C6: lookup returns the index of the entry whose name equals its argument
\* exactly, and not-found for any other string and for an absent token; it
\* never faults.
C6_LookupExact ==
  nread > 0 =>
    /\ fundex # Fault
    /\ fundex = ExpectedIndex(Token0)
    /\ Token0 = NULL => fundex = NotFound

C6_Witness ==
  /\ pc = "dispatch"
  /\ Token0 = "cd"
  /\ fundex = 3

\* The handler registered for a command name.
HandlerOf(name) ==
  IF name = "exit" THEN "cmd_exit"
  ELSE IF name \in {"help", "?"} THEN "cmd_help"
  ELSE IF name = "pwd" THEN "cmd_pwd"
  ELSE "cmd_cd"

\* A line whose first token is in names is run by its handler in the shell
\* process and spawns no child.
BuiltinInProcess(names) ==
  nread > 0 /\ Token0 \in names =>
    /\ iter.forks = 0
    /\ iter.spawned = {}
    /\ children = {}
    /\ pc # "wait"
    /\ pc # "dispatch" => iter.ran = {<<ShellPid, HandlerOf(Token0)>>}

\* C7 as stated: the builtin names are exit, help, pwd, cd.
C7_BuiltinNamesWithHelp == BuiltinInProcess({"exit", "help", "pwd", "cd"})

\* C7 amended: a line whose first token is one of the registered names
\* exit, ?, pwd, cd is run by the matching handler inside the shell's own
\* process and spawns no child.
C7_BuiltinsSpawnNoChild == BuiltinInProcess({"exit", "?", "pwd", "cd"})

C7_Witness ==
  /\ pc = "prompt"
  /\ Token0 = "?"
  /\ iter.ran = {<<ShellPid, "cmd_help">>}
  /\ iter.forks = 0

\* C8: cd changes the working directory to its target (HOME when no
\* argument follows, else the first argument) exactly when the target is a
\* valid accessible directory; otherwise the working directory is unchanged
\* and one error is written to stderr.
C8_CdChangesDirOrReports ==
  [][pc = "dispatch" /\ pc' # "dispatch" /\ Token0 = "cd" =>
       LET target == IF Len(tokens) = 1 THEN HOME ELSE tokens[2] IN
         IF /\ target # NULL
            /\ Resolve(cwd, target) \in Dirs
            /\ Resolve(cwd, target) \in Accessible
         THEN cwd' = Resolve(cwd, target) /\ err' = err
         ELSE /\ cwd' = cwd
              /\ Len(err') = Len(err) + 1
              /\ err'[Len(err')].pid = ShellPid]_vars

C8_Witness ==
  /\ pc = "prompt"
  /\ tokens = <<"cd">>
  /\ cwd = "/a"
  /\ iter.errs = 0

C10_EofTerminatesCleanly ==
  /\ [](exitBy = "eof" => pc = "done" /\ exit_status = 0 /\ children = {})
  /\ [][pc = "read" /\ pc' = "done" =>
          /\ exit_status' = 0
          /\ out' = out
          /\ children' = children
          /\ nextPid' = nextPid]_vars

C10_Witness ==
  /\ pc = "done"
  /\ exitBy = "eof"
  /\ shell_is_interactive
  /\ nread = 1
  /\ Len(Prompts) = 2

\* C11: the exit builtin terminates the shell at once with status 0,
\* whatever its arguments: no prompt is written, no line is read or
\* executed and no child is spawned after an exit line is dispatched.
C11_ExitTerminatesAtOnce ==
  /\ [][pc = "dispatch" /\ Token0 = "exit" =>
          /\ pc' = "done"
          /\ exit_status' = 0
          /\ UNCHANGED <<out, nread, children, nextPid>>
          /\ executed' = Append(executed, tokens)]_vars
  /\ [][exitBy # "exit"]_vars
  /\ [](exitBy = "exit" =>
          /\ pc = "done"
          /\ exit_status = 0
          /\ children = {}
          /\ Len(executed) = nread
          /\ executed[Len(executed)][1] = "exit")

C11_Witness ==
  /\ exitBy = "exit"
  /\ tokens = <<"exit", "1">>
  /\ nread = 1
  /\ Len(file) = 2

\* C12: for an external command with n >= 1 tokens the argument vector
\* given to execv has n+1 elements, element i is token i, element n is
\* NULL, and the path given to execv is token 0 unchanged.
C12_ArgvIsTokensThenNull ==
  \A c \in children :
    c.st \in {"running", "zombie"} /\ Len(c.tok) >= 1 =>
      /\ Len(c.argv) = Len(c.tok) + 1
      /\ \A i \in 0..(Len(c.tok) - 1) : c.argv[i + 1] = c.tok[i + 1]
      /\ c.argv[Len(c.tok) + 1] = NULL
      /\ c.path = c.tok[1]

C12_Witness ==
  \E c \in children :
    /\ c.st = "running"
    /\ c.path = "/bin/ls"
    /\ c.argv = <<"/bin/ls", "-l", NULL>>

\* C16: in the shell every Tokens value is destroyed exactly once, after
\* its dispatch and before the next line is read; at most one is live, none
\* is used after its destruction, and only the one live when exit
\* terminates the process is never destroyed.
C16_TokensDestroyedOncePerLine ==
  /\ [](tokens_live <=>
          \/ pc \in {"dispatch", "wait", "prompt", "destroy"}
          \/ exitBy = "exit")
  /\ [](nread > 0 =>
          iter.destroys = (IF pc = "read" \/ exitBy = "eof" THEN 1 ELSE 0))
  /\ [][executed' # executed => tokens_live]_vars
  /\ [][nread' # nread => ~tokens_live /\ tokens_live']_vars
  /\ [][pc = "destroy" => tokens_live /\ ~tokens_live']_vars

C16_Witness ==
  /\ pc = "read"
  /\ nread = 2
  /\ ~tokens_live
  /\ iter.destroys = 1

\* C17: a line without tokens is handled as an external command: lookup
\* gets an absent name and returns not-found, fork is called, the child's
\* execv with an absent path fails, the child exits with a non-zero status,
\* the shell waits for it and goes on.
C17_EmptyLineIsExternal ==
  nread > 0 /\ tokens = <<>> =>
    /\ fundex = NotFound
    /\ pc # "dispatch" => iter.forks = 1 /\ iter.ran = {}
    /\ \A c \in children :
         /\ c.tok = <<>>
         /\ c.st # "running"
         /\ c.st = "zombie" =>
              c.path = NULL /\ c.execFailed /\ c.status # 0
    /\ AfterDispatch =>
         /\ iter.waits = 1
         /\ children = {}
         /\ iter.reaped = iter.spawned
         /\ iter.execs = iter.spawned
    /\ pc = "done" => exitBy = "eof" /\ exit_status = 0

C17_Witness ==
  /\ nread > 0
  /\ tokens = <<>>
  /\ pc = "prompt"
  /\ iter.spawned # {}
  /\ iter.reaped = iter.spawned
  /\ iter.errs = 1

\* fork was called for the current line and created no child.
ForkFailed == ExternalLine /\ iter.forks = 1 /\ iter.spawned = {}

\* C18: when fork fails no child exists, the shell does not run the child
\* branch (it calls no execv and does not exit with a failure), its wait
\* returns, and the loop goes on.
C18_ForkFailureIsHarmless ==
  ForkFailed =>
    /\ children = {}
    /\ iter.execs = {}
    /\ iter.errs = 0
    /\ pc \in {"wait", "prompt", "destroy", "read", "done"}
    /\ pc = "wait" => ENABLED Wait
    /\ AfterDispatch => iter.waits = 1 /\ iter.reaped = {}
    /\ pc = "done" => exitBy = "eof" /\ exit_status = 0

C18_Witness ==
  /\ ForkFailed
  /\ pc = "prompt"
  /\ iter.waits = 1
  /\ exit_status = Running

\* The items of a sequence of flushed items.
RECURSIVE ItemsOf(_)
ItemsOf(d) == IF d = <<>> THEN <<>> ELSE <<Head(d).item>> \o ItemsOf(Tail(d))

\* C19: what the shell writes to stdout reaches stdout exactly once,
\* whatever the buffering: a child whose execv failed emits nothing on
\* stdout when it exits, so what has reached stdout plus what the shell
\* still holds in its buffer is what the shell wrote.
C19_StdoutExactlyOnce ==
  /\ \A i \in DOMAIN dev : dev[i].by = ShellPid
  /\ ItemsOf(dev) \o obuf = out

\* init_shell has not returned.
InitPcs == {"init", "loop", "kill", "getpid", "tcsetpgrp", "tcgetattr"}

\* init_shell has not left its loop.
WaitingPcs == {"init", "loop", "kill"}

\* C13: in an interactive session, once init_shell has completed, shell_pgid
\* is the process group of the shell and the foreground process group of the
\* terminal, whether or not the shell leads its process group.
C13_ShellPgidIsOwnForegroundGroup ==
  (shell_is_interactive /\ pc \notin InitPcs)
    => (shell_pgid = pgrp /\ term_fg = shell_pgid)

\* C14: a terminal-control call of init_shell that failed was reported on
\* stderr.
C14_TerminalFailureReported ==
  failed # {} => \E i \in DOMAIN err : err[i].kind = "error"

\* Each time the loop of init_shell found the foreground group different
\* from the shell's group one SIGTTIN was sent, to that group, and before
\* the groups were found equal there is no tcsetpgrp, prompt or read.
C15_SignalEachTimeNothingElse ==
  /\ nsig = IF pc = "kill" THEN nobs - 1 ELSE nobs
  /\ sig_to \subseteq {pgrp}
  /\ (tty /\ ~seen_equal)
       => (pc \in WaitingPcs /\ did = {} /\ out = <<>> /\ nread = 0)

\* The supervising shell has made the shell's group the foreground group.
ForegroundWhileWaiting == pc \in WaitingPcs => term_fg = pgrp

\* C15: init_shell sends SIGTTIN to its own process group each time it
\* finds the foreground group different from its group and does nothing
\* else until it finds them equal; if the supervising shell eventually
\* keeps the shell's group in the foreground and continues the shell
\* whenever it is stopped, init_shell eventually completes.
C15_SignalsUntilForeground ==
  /\ []C15_SignalEachTimeNothingElse
  /\ (<>[]ForegroundWhileWaiting /\ []<>(~stopped)) => <>(pc \notin InitPcs)

\* The shell was stopped by its own SIGTTIN, was continued in the
\* foreground and init_shell has returned.
C15_Witness ==
  /\ tty /\ sig_stops
  /\ nsig >= 1
  /\ seen_equal
  /\ pc = "prompt0"

\* Bytes of the strings fgets returned for line k.
RECURSIVE ChunkBytes(_, _)
ChunkBytes(cs, k) ==
  IF cs = <<>> THEN 0
  ELSE (IF Head(cs)[1] = k THEN Head(cs)[2] ELSE 0) + ChunkBytes(Tail(cs), k)

\* The shell has finished the iteration of every string fgets returned.
BetweenLines == pc \in {"read", "done"}

====
